---- MODULE Spec2Model ----
(***************************************************************************)
(* A state-machine model of the catkit orchestration code:                 *)
(*   - LaserSource (src/LaserSource.py): constructor, __enter__, __exit__  *)
(*   - SpeckleNulling.experiment (src/SpeckleNulling.py)                   *)
(*   - take_exposures (src/modules/general.py)                             *)
(*   - Stage (src/catkit/hardware/standa/stages.py)                        *)
(*   - take_coffee_data_set (src/modules/general.py)                       *)
(*   - SimpleSineTest.experiment (src/SimpleSineTest.py)                   *)
(* One program runs per behaviour (prog); each action is one call made by  *)
(* the program, with the outcomes that call can have (return or raise).    *)
(***************************************************************************)
EXTENDS Integers, Sequences, FiniteSets, TLC

VARIABLES
    prog,               \* which entry point runs
    pc,                 \* position in the running program
    err,                \* "none", or the call whose exception is propagating
    log,                \* the calls made so far, in order
    num_iterations,     \* SpeckleNulling.num_iterations
    fpm_position,       \* "coron" / "direct"
    exposure_time,      \* self.exposure_time (configured)
    auto_exposure_time, \* local auto_exposure_time
    dm_command_path,    \* SpeckleNulling.dm_command_path: "given" or "none"
    initial_speckles,   \* SpeckleNulling.initial_speckles: "given" or "none"
    initial_data,       \* data of the initial command object
    dm2_command_list,   \* take_coffee_data_set: the DM2 commands, in order
    centering,          \* the centering keyword argument passed by the caller
    cycles,             \* SimpleSineTest.cycles, a sequence
    orientation_angles, \* SimpleSineTest.orientation_angles, a sequence
    phase_shifts,       \* SimpleSineTest.phase_shifts, a sequence
    params,             \* what the params iterator has still to yield
    param,              \* the loop's current <<ncyc, angle, phase_shift>>
    irisHeld,           \* whether the IrisAO controller is acquired
    data,               \* current_command_object.data
    i,                  \* loop index of the iteration loop
    k,                  \* index into phase_list / amplitude_coeff_list
    laser,              \* LaserSource.laser: "none" or "handle"
    conn,               \* the laser connection: "closed" or "open"
    entered,            \* whether __enter__ of the laser source has run
    opens,              \* number of connections opened
    closeCalls,         \* number of close() calls
    laser_current,      \* value given to laser.set_current, or "unset"
    dmHeld,             \* whether the DM controller is acquired
    dmShape,            \* the command the DM holds (last applied)
    released,           \* the resources released so far, in order
    stageOp,            \* the Stage operation being called, or "none"
    wait,               \* goto_steps(position, wait)
    position,           \* goto_steps position, in 1/512 step
    elapsed,            \* poll_status: seconds waited so far
    polls,              \* number of is_moving polls made by await_stop
    value,              \* the position or distance a move operation is called with
    distance,           \* offset_steps distance, in 1/512 step
    units,              \* units argument of absolute_move / relative_move
    conversionFactor,   \* Stage.conversionFactor, as <<numerator, denominator>>
    softStops,          \* Stage.softStops, as <<low, high>> in 1/512 step
    homeOffset,         \* Stage.homeOffset (integral part), in 1/512 step
    u_homeOffset,       \* Stage.u_homeOffset (fractional part), in 1/512 step
    devenum,            \* the device enumeration: [name, result] per device
    id_str,             \* get_device_id(id_str)
    dev_ind,            \* scan_for_devices loop index
    devices_list,       \* scan_for_devices: devices_list
    ret                 \* the value returned by scan_for_devices / get_device_id

vars == <<prog, pc, err, log, num_iterations, fpm_position, exposure_time,
          auto_exposure_time, dm_command_path, initial_speckles, initial_data,
          dm2_command_list, centering, data, i, k, laser, conn, entered,
          opens, closeCalls, laser_current, dmHeld, dmShape, released,
          stageOp, wait, position, elapsed, polls, value, distance, units,
          conversionFactor, softStops, homeOffset, u_homeOffset,
          devenum, id_str, dev_ind, devices_list, ret,
          cycles, orientation_angles, phase_shifts, params, param, irisHeld>>

sineVars  == <<cycles, orientation_angles, phase_shifts, params, param, irisHeld>>
laserVars == <<laser, conn, entered, opens, closeCalls>>
loopVars  == <<i, k, data, initial_data, auto_exposure_time>>
stageCfg  == <<value, units, conversionFactor, softStops, homeOffset, u_homeOffset>>
devVars   == <<devenum, id_str, dev_ind, devices_list, ret>>
stageVars == <<stageOp, wait, position, elapsed, polls, distance, stageCfg, devVars>>
expVars   == <<num_iterations, fpm_position, exposure_time, auto_exposure_time,
               dm_command_path, initial_speckles, initial_data,
               dm2_command_list, centering, data, i, k, laser, conn, entered,
               opens, closeCalls,
               laser_current, dmHeld, dmShape, released, sineVars>>
callVars  == <<fpm_position, exposure_time>>
cfgVars   == <<prog, num_iterations, callVars, dm_command_path,
               initial_speckles, dm2_command_list, centering, stageVars,
               sineVars>>

(* ---------------------------- bounds ----------------------------------- *)
MaxIter == 2

InitialData   == {0, 5}
ExposureTimes == {100, 250}
Corrections   == {-1, 2}

\* Stage operations that make a vendor call.
StageOps == {"home", "set_home_settings", "get_home_settings", "goto_steps",
             "set_speed", "get_speed", "is_moving", "get_step_position",
             "get_enc_position", "stop"}

\* Vendor result codes: Result.Ok, and two of the others.
Results == {"Ok", "Error", "NoDevice"}

\* Values of status_t.MvCmdSts: move finished (1), move finished with error
\* (65), move running (129).
MvCmdStsValues == {1, 65, 129}

\* goto_steps positions tried with wait=True, in 1/512 step.
Positions == {-1025, -512, -3, 0, 2, 513, 1280}

\* goto_steps with wait=False is tried at every position of
\* -MaxPosition..MaxPosition, in 1/512 step.
MaxPosition == 1300

\* The move operations built on goto_steps.
MoveOps == {"goto_real", "offset_steps", "offset_real", "absolute_move",
            "relative_move"}

AbsoluteOps == {"goto_real", "absolute_move"}

RelativeOps == {"offset_steps", "offset_real", "relative_move"}

\* Positions and distances the move operations are called with, in 1/512
\* step: multiples of 4, so that the quotient by every conversion factor
\* tried is a whole number of 1/512 steps.
Values == {-2048, -4, 0, 12, 1028, 3000}

\* class Unit(Enum): STEPS = 1, REAL = 2; "OTHER" is any other value.
Units == {"STEPS", "REAL", "OTHER"}

\* Conversion factors tried: 0.5, 2 and 4, as <<numerator, denominator>>.
ConversionFactors == {<<1, 2>>, <<2, 1>>, <<4, 1>>}

\* Soft stops tried, as <<low, high>> in 1/512 step.
SoftStopsTried == {<<-512, 512>>, <<0, 2048>>}

\* deviceStatus.EncPosition values tried (whole steps).
EncPositions == {-3, 0, 7}

\* Largest number of DM2 commands given to take_coffee_data_set.
MaxCommands == 2

\* The DM2 command files the list is made of.
Dm2Commands == {10, 20}

CommandLists == UNION {[1..n -> Dm2Commands] : n \in 0..MaxCommands}

\* Values of ImageCentering a caller passes.
Centerings == {"psf", "custom_apodizer_spots", "satellite_spots"}

\* CoffeeStrokeMin defaults: direct_exp_time = 1 ms, coron_exp_time = 100 ms.
DirectExpTime == 1

CoronExpTime == 100

\* Largest length of cycles, orientation_angles and phase_shifts.
SineMaxLen == 2

\* Values the three parameter lists are made of: cycles per aperture, angles
\* in degrees, phase shifts in degrees.
CycleValues == {6, 8}

AngleValues == {0, 90}

PhaseValues == {0, 45}

ListsOf(S) == UNION {[1..n -> S] : n \in 0..SineMaxLen}

\* ampl = 50  (amplitude in nm)
ampl == 50

\* phase1 = 90
phase1 == 90

\* The class methods that look for devices.
DeviceOps == {"scan_for_devices", "get_device_id"}

\* Largest number of devices the enumeration reports.
MaxDevices == 2

\* Device names (get_device_name), as sequences of characters.
DeviceNames == {<<"A", "1">>, <<"A", "2">>, <<"B", "1">>}

\* Identifiers asked for, as sequences of characters.
IdStrings == {<<>>, <<"A">>, <<"1">>, <<"B", "1">>, <<"C">>, <<"b", "'">>}

\* What the enumeration can report: for each device index its name and the
\* result of get_enumerate_device_controller_name.
Enumerations ==
    UNION {[1..n -> [name : DeviceNames, result : Results]] : n \in 0..MaxDevices}

\* homeOffset values tried, in 1/512 step.
HomeOffsets == {-700, 0, 256, 511, 1300}

(* ---------------------------- helpers ---------------------------------- *)
\* Python range(start, stop, step) for step > 0, as a sequence.
RangeLen(start, stop, step) ==
    IF stop <= start THEN 0 ELSE ((stop - start) + step - 1) \div step

Range(start, stop, step) ==
    [n \in 1..RangeLen(start, stop, step) |-> start + (n - 1) * step]

\* A phase list that stops one sample short.
phase_list_short == Range(0, 330, 30)

\* phase_list = range(0, 360, 30), in degrees.
phase_list == Range(0, 360, 30)

\* amplitude_coeff_list = np.arange(0.1, 2.0, 0.3), in tenths.
amplitude_coeff_list == Range(1, 20, 3)

\* One logged call.  kind tells which command / image it is about.
Ev(op, kind, it, arg, exp) ==
    [op |-> op, kind |-> kind, it |-> it, arg |-> arg, exp |-> exp]

\* A DM command: the running command ("cmd"), a probe built by sin_command on
\* the running command's data, or both DM commands of take_exposures.
Cmd(kind, base, arg) == [kind |-> kind, base |-> base, arg |-> arg]

NoCmd == Cmd("none", 0, 0)

\* The direct current whatever the FPM position.
LaserCurrentAlwaysDirect(fpm) == "direct_current"

\* sin_command(specification, ..., initial_data=base): a new command object
\* whose data is the sine wave added to a copy of base; base is left as it is.
SinCommand(kind, base, arg) == Cmd(kind, base, arg)

\* laser current chosen from the FPM position.
LaserCurrentFor(fpm) == IF fpm = "coron" THEN "coron_current" ELSE "direct_current"

\* Leaving the scope body without releasing the DM controller.
UnwindSkipDm == "laser_exit"

\* Where control goes when the body of the scopes is left (normally or by an
\* exception): the innermost acquired resource is released first.
Unwind == IF dmHeld THEN "dm_exit" ELSE "laser_exit"

\* int(n / d) for d > 0: truncation towards zero, as math.modf and int() do.
Trunc(n, d) == IF n >= 0 THEN n \div d ELSE -((-n) \div d)

\* math.modf(x) returns (fractional part, integral part), both with the sign
\* of x.  x is in 1/512 step, and so are both parts.
IntegralPart(q) == (2 * 256) * Trunc(q, 2 * 256)

FractionalPart(q) == q - IntegralPart(q)

(* ---------------------------- initial state ---------------------------- *)
\* Nothing acquired, nothing called yet.
Fresh ==
    /\ err = "none"
    /\ log = <<>>
    /\ i = 0
    /\ k = 0
    /\ laser = "none"
    /\ conn = "closed"
    /\ entered = FALSE
    /\ opens = 0
    /\ closeCalls = 0
    /\ laser_current = "unset"
    /\ dmHeld = FALSE
    /\ dmShape = NoCmd
    /\ released = <<>>
    /\ elapsed = 0
    /\ polls = 0
    /\ dev_ind = 0
    /\ devices_list = <<>>
    /\ ret = <<>>

\* SimpleSineTest is not involved.
NoSine ==
    /\ cycles = <<>> /\ orientation_angles = <<>> /\ phase_shifts = <<>>
    /\ params = <<>> /\ param = <<>> /\ irisHeld = FALSE

\* take_coffee_data_set is not involved.
NoCoffee == dm2_command_list = <<>> /\ centering = "none"

\* No experiment is involved.
NoExperiment ==
    /\ num_iterations = 0
    /\ fpm_position = "direct"
    /\ exposure_time = 0
    /\ dm_command_path = "none"
    /\ initial_speckles = "none"
    /\ initial_data = 0
    /\ auto_exposure_time = 0
    /\ data = 0
    /\ NoCoffee
    /\ NoSine

\* No device scan is involved.
NoDevices == devenum = <<>> /\ id_str = <<>>

\* No Stage object is involved.
NoStage ==
    /\ stageOp = "none" /\ wait = FALSE /\ position = 0 /\ distance = 0
    /\ value = 0 /\ units = "STEPS" /\ conversionFactor = <<1, 1>>
    /\ softStops = <<0, 0>> /\ homeOffset = 0 /\ u_homeOffset = 0

\* SpeckleNulling.experiment or take_exposures is about to run.
Init ==
    /\ Fresh
    /\ \/ /\ prog = "speckle"
          /\ pc = "start"
          /\ num_iterations \in 0..MaxIter
          /\ dm_command_path \in {"none", "given"}
          /\ initial_speckles \in {"none", "given"}
          /\ initial_data = 0
       \/ /\ prog = "take_exposures"
          /\ pc = "laser_new"
          /\ num_iterations = 0
          /\ dm_command_path = "none"
          /\ initial_speckles = "none"
          /\ initial_data \in InitialData
    /\ fpm_position \in {"coron", "direct"}
    /\ exposure_time \in ExposureTimes
    /\ auto_exposure_time = exposure_time
    /\ data = initial_data
    /\ NoCoffee
    /\ NoSine
    /\ NoStage
    /\ NoDevices

\* take_coffee_data_set is about to run on a list of at most MaxCommands
\* DM2 commands.
CoffeeInit ==
    /\ Fresh
    /\ prog = "coffee"
    /\ pc = "coffee_loop"
    /\ num_iterations = 0
    /\ fpm_position = "direct"
    /\ exposure_time = 0
    /\ auto_exposure_time = 0
    /\ dm_command_path = "none"
    /\ initial_speckles = "none"
    /\ initial_data = 0
    /\ data = 0
    /\ dm2_command_list \in CommandLists
    /\ centering \in Centerings
    /\ NoSine
    /\ NoStage
    /\ NoDevices

\* An operation of an open Stage is about to run.
StageInit ==
    /\ Fresh
    /\ prog = "stage"
    /\ pc = "stage_start"
    /\ NoExperiment
    /\ NoDevices
    /\ stageOp \in StageOps \cup MoveOps
    /\ wait \in (IF stageOp = "goto_steps" THEN BOOLEAN
                ELSE IF stageOp \in MoveOps THEN {FALSE} ELSE {TRUE})
    /\ value \in (IF stageOp \in MoveOps THEN Values ELSE {0})
    /\ position \in (IF stageOp = "goto_steps"
                      THEN (IF wait THEN Positions ELSE -MaxPosition..MaxPosition)
                      ELSE IF stageOp \in AbsoluteOps THEN {value} ELSE {0})
    /\ distance = (IF stageOp \in RelativeOps THEN value ELSE 0)
    /\ units \in (IF stageOp \in {"absolute_move", "relative_move"}
                    THEN Units ELSE {"STEPS"})
    /\ conversionFactor \in (IF stageOp \in MoveOps THEN ConversionFactors
                              ELSE {<<1, 1>>})
    /\ softStops \in (IF stageOp \in MoveOps THEN SoftStopsTried
                       ELSE {<<-512, 512>>})
    /\ \E h \in (IF stageOp = "home" THEN HomeOffsets ELSE {0}) :
          /\ homeOffset = IntegralPart(h)
          /\ u_homeOffset = FractionalPart(h)

\* Stage.scan_for_devices or Stage.get_device_id (class methods) is about to
\* run on a USB bus with at most MaxDevices devices.
DeviceInit ==
    /\ Fresh
    /\ prog = "devices"
    /\ pc = "stage_start"
    /\ NoExperiment
    /\ stageOp \in DeviceOps
    /\ wait = FALSE /\ position = 0 /\ distance = 0
    /\ value = 0 /\ units = "STEPS" /\ conversionFactor = <<1, 1>>
    /\ softStops = <<0, 0>> /\ homeOffset = 0 /\ u_homeOffset = 0
    /\ devenum \in Enumerations
    /\ id_str \in (IF stageOp = "get_device_id" THEN IdStrings ELSE {<<>>})

\* SimpleSineTest.experiment is about to run; exposure_time is the
\* constructor's default None (0 here), so auto_expose is set.
SineInit ==
    /\ Fresh
    /\ prog = "sine"
    /\ pc = "sine_start"
    /\ num_iterations = 0
    /\ fpm_position = "coron"
    /\ exposure_time = 0
    /\ auto_exposure_time = 0
    /\ dm_command_path = "none"
    /\ initial_speckles = "none"
    /\ initial_data = 0
    /\ data = 0
    /\ NoCoffee
    /\ cycles \in ListsOf(CycleValues)
    /\ orientation_angles \in ListsOf(AngleValues)
    /\ phase_shifts \in ListsOf(PhaseValues)
    /\ params = <<>> /\ param = <<>> /\ irisHeld = FALSE
    /\ NoStage
    /\ NoDevices

(* ---------------------------- initial DM command ----------------------- *)
\* Initial speckles take priority over a stored command.
InitialSource_SpecklesFirst(path, speckles) ==
    IF speckles = "given" THEN "sin_command"
    ELSE IF path = "given" THEN "load_dm_command"
    ELSE "flat_command"

\* if self.dm_command_path: ... elif self.initial_speckles: ... else: ...
InitialSource(path, speckles) ==
    IF path = "given" THEN "load_dm_command"
    ELSE IF speckles = "given" THEN "sin_command"
    ELSE "flat_command"

\* The data of the command each source yields (a stored command, a sine on the
\* flat map, the flat map).
SourceData(source) ==
    CASE source = "load_dm_command" -> 5
      [] source = "sin_command"     -> 3
      [] source = "flat_command"    -> 0

\* SpeckleNulling.experiment up to the with-statement: the initial command is
\* built by exactly one of load_dm_command, sin_command, flat_command.
BuildInitialCommand ==
    /\ pc = "start"
    /\ LET source == InitialSource(dm_command_path, initial_speckles) IN
       \/ /\ initial_data' = SourceData(source)
          /\ data' = SourceData(source)
          /\ log' = Append(log, Ev(source, "init", 0, SourceData(source), 0))
          /\ pc' = "laser_new"
          /\ UNCHANGED err
       \/ /\ err' = source
          /\ pc' = "raised"
          /\ UNCHANGED <<initial_data, data, log>>
    /\ UNCHANGED <<laserVars, cfgVars, i, k, auto_exposure_time, laser_current,
                   dmHeld, dmShape, released>>

(* ---------------------------- take_coffee_data_set -------------------- *)
\* The direct call is given the centering the caller passed.
DirectCentering_Passed(c) == c

\* take_exposures(..., "direct", None, centering=ImageCentering.psf, **kwargs)
DirectCentering(c) == "psf"

\* The centering keyword that reaches take_exposures and, in **kwargs,
\* run_hicat_imaging: of a take_coffee_data_set call it is chosen by the data
\* set, otherwise it is the caller's.
KwargCentering(coronograph) ==
    IF prog = "coffee" /\ coronograph = "direct"
       THEN DirectCentering(centering) ELSE centering

\* Where control goes when take_exposures returns.
Returned == IF prog = "coffee" THEN "te_return" ELSE "done"

\* Which programs run the body of take_exposures.
TakesExposures == prog \in {"take_exposures", "coffee"}

coffeeFrame == <<laserVars, prog, num_iterations, dm_command_path,
                 initial_speckles, initial_data, dm2_command_list, centering,
                 stageVars, sineVars, k, auto_exposure_time, dmHeld, dmShape,
                 released>>

\* for command in dm2_command_list:
\*     dm2_command_object = DmCommand.load_dm_command(command, ..., dm_num=2)
CoffeeLoop ==
    /\ prog = "coffee" /\ pc = "coffee_loop"
    /\ IF i < Len(dm2_command_list)
          THEN \/ /\ data' = dm2_command_list[i + 1]
                  /\ log' = Append(log, Ev("load_dm_command", "dm2", i,
                                           dm2_command_list[i + 1], 0))
                  /\ pc' = "call_direct"
                  /\ UNCHANGED err
               \/ /\ err' = "load_dm_command"
                  /\ pc' = "raised"
                  /\ UNCHANGED <<data, log>>
          ELSE pc' = "done" /\ UNCHANGED <<data, log, err>>
    /\ UNCHANGED <<coffeeFrame, callVars, i, entered, laser_current>>

\* The two take_exposures calls of the loop body: the direct one with
\* direct_exp_time and coronograph False, then the coron one with
\* coron_exp_time and coronograph True.
CoffeeCall ==
    /\ prog = "coffee" /\ pc \in {"call_direct", "call_coron"}
    /\ LET coronograph == IF pc = "call_direct" THEN "direct" ELSE "coron"
           exp_time    == IF pc = "call_direct" THEN DirectExpTime ELSE CoronExpTime
       IN  /\ fpm_position' = coronograph
           /\ exposure_time' = exp_time
           /\ log' = Append(log, Ev("take_exposures", coronograph, i,
                                    KwargCentering(coronograph), exp_time))
    /\ laser_current' = "unset"
    /\ pc' = "laser_new"
    /\ UNCHANGED <<coffeeFrame, err, i, data, entered>>

\* take_exposures returned: the coron call follows the direct one, the next
\* command follows the coron call.
CoffeeReturn ==
    /\ prog = "coffee" /\ pc = "te_return"
    /\ IF fpm_position = "direct"
          THEN pc' = "call_coron" /\ UNCHANGED i
          ELSE pc' = "coffee_loop" /\ i' = i + 1
    /\ UNCHANGED <<coffeeFrame, callVars, err, log, data, entered, laser_current>>

(* ---------------------------- SimpleSineTest.experiment --------------- *)
\* The product with the phase shifts outermost and the cycles innermost.
Product_PhaseOutermost(c, a, p) ==
    [n \in 1..(Len(c) * Len(a) * Len(p)) |->
        <<c[((n - 1) % Len(c)) + 1],
          a[(((n - 1) \div Len(c)) % Len(a)) + 1],
          p[((n - 1) \div (Len(c) * Len(a))) + 1]>>]

\* itertools.product(c, a, p): the triples in the order of nested for-loops
\* over c, a and p, the rightmost advancing on every step.
Product(c, a, p) ==
    [n \in 1..(Len(c) * Len(a) * Len(p)) |->
        <<c[((n - 1) \div (Len(a) * Len(p))) + 1],
          a[(((n - 1) \div Len(p)) % Len(a)) + 1],
          p[((n - 1) % Len(p)) + 1]>>]

\* SinSpecification = namedtuple("SinSpecification",
\*                               "angle, ncycles, peak_to_valley, phase")
SinSpecification(angle, ncycles, peak_to_valley, phase) ==
    <<angle, ncycles, peak_to_valley, phase>>

\* sin_specification_first / sin_specification_second of a parameter triple
\* <<ncyc, angle, phase_shift>>.
SinSpecificationFirst(t) == SinSpecification(t[2], t[1], ampl, phase1)

SinSpecificationSecond(t) == SinSpecification(t[2], t[1], ampl, phase1 + t[3])

\* with testbed.dm_controller() as dm, testbed.iris_ao() as iris_dm: when the
\* block is left the IrisAO controller is released first, then the DM.
SineUnwind ==
    IF irisHeld THEN "iris_exit" ELSE IF dmHeld THEN "sine_dm_exit" ELSE "raised"

\* A call of the experiment raises: the exception leaves the with-block.
SineFail(step) ==
    /\ err' = step
    /\ pc' = SineUnwind

sineFrame == <<laserVars, prog, num_iterations, callVars, dm_command_path,
               initial_speckles, initial_data, dm2_command_list, centering,
               stageVars, k, data, auto_exposure_time, laser_current,
               cycles, orientation_angles, phase_shifts>>

\* What the steps inside the with-block leave unchanged.
sineBody == <<sineFrame, dmHeld, irisHeld, released, params, param, i>>

\* Lines 39-46: params = itertools.product(...), and the DM translation read
\* from the configuration.
SineStart ==
    /\ prog = "sine" /\ pc = "sine_start"
    /\ \/ /\ params' = Product(cycles, orientation_angles, phase_shifts)
          /\ pc' = "sine_dm_new"
          /\ UNCHANGED err
       \/ /\ SineFail("CONFIG_INI.getfloat")
          /\ UNCHANGED params
    /\ UNCHANGED <<sineFrame, log, dmHeld, irisHeld, released, param, i, dmShape>>

\* with testbed.dm_controller() as dm, ...
SineDmEnter ==
    /\ prog = "sine" /\ pc = "sine_dm_new"
    /\ \/ /\ dmHeld' = TRUE
          /\ log' = Append(log, Ev("dm_enter", "dm", i, <<>>, 0))
          /\ pc' = "iris_new"
          /\ UNCHANGED err
       \/ /\ SineFail("dm_controller")
          /\ UNCHANGED <<dmHeld, log>>
    /\ UNCHANGED <<sineFrame, irisHeld, released, params, param, i, dmShape>>

\* ... testbed.iris_ao() as iris_dm:
SineIrisEnter ==
    /\ prog = "sine" /\ pc = "iris_new"
    /\ \/ /\ irisHeld' = TRUE
          /\ log' = Append(log, Ev("iris_enter", "iris", i, <<>>, 0))
          /\ pc' = "flat_both"
          /\ UNCHANGED err
       \/ /\ SineFail("iris_ao")
          /\ UNCHANGED <<irisHeld, log>>
    /\ UNCHANGED <<sineFrame, dmHeld, released, params, param, i, dmShape>>

\* dm.apply_shape_to_both(flat_command(...), flat_command(...))
SineFlatBoth ==
    /\ prog = "sine" /\ pc = "flat_both"
    /\ \/ /\ dmShape' = Cmd("flat_both", <<>>, 0)
          /\ log' = Append(log, Ev("apply_both", "flat", i, <<>>, 0))
          /\ pc' = "iris_flat"
          /\ UNCHANGED err
       \/ /\ SineFail("apply_shape_to_both")
          /\ UNCHANGED <<dmShape, log>>
    /\ UNCHANGED sineBody

\* iris_dm.apply_shape(iris_ao.flat_command())
SineIrisFlat ==
    /\ prog = "sine" /\ pc = "iris_flat"
    /\ \/ /\ log' = Append(log, Ev("iris_apply", "flat", i, <<>>, 0))
          /\ pc' = "baseline"
          /\ UNCHANGED err
       \/ /\ SineFail("iris_apply_shape")
          /\ UNCHANGED log
    /\ UNCHANGED <<sineBody, dmShape>>

\* The baseline: create_data_path(...), then run_hicat_imaging(...,
\* filename='dms_flat', ...).
SineBaseline ==
    /\ prog = "sine" /\ pc = "baseline"
    /\ \/ /\ log' = Append(log, Ev("image", "dms_flat", i, <<>>, exposure_time))
          /\ pc' = "sine_loop"
          /\ UNCHANGED err
       \/ /\ SineFail("run_hicat_imaging")
          /\ UNCHANGED log
    /\ UNCHANGED <<sineBody, dmShape>>

\* for ncyc, angle, phase_shift in params: the next triple, or the end of
\* the loop.
SineLoop ==
    /\ prog = "sine" /\ pc = "sine_loop"
    /\ IF params = <<>>
          THEN pc' = "record" /\ UNCHANGED <<params, param, i>>
          ELSE /\ param' = Head(params)
               /\ params' = Tail(params)
               /\ i' = i + 1
               /\ pc' = "sin_commands"
    /\ UNCHANGED <<sineFrame, err, log, dmHeld, irisHeld, released, dmShape>>

\* Lines 78-97: the two specifications, the output path and the two
\* sin_command objects.
SineCommands ==
    /\ prog = "sine" /\ pc = "sin_commands"
    /\ \/ pc' = "apply_dm1" /\ UNCHANGED err
       \/ SineFail("sin_command")
    /\ UNCHANGED <<sineBody, log, dmShape>>

\* dm.apply_shape(sin_command_object_dm1, dm_num=1)
SineApplyDm1 ==
    /\ prog = "sine" /\ pc = "apply_dm1"
    /\ \/ /\ dmShape' = Cmd("sin_dm1", SinSpecificationFirst(param), 1)
          /\ log' = Append(log, Ev("apply", "dm1", i,
                                   SinSpecificationFirst(param), 0))
          /\ pc' = "apply_dm2"
          /\ UNCHANGED err
       \/ /\ SineFail("apply_shape")
          /\ UNCHANGED <<dmShape, log>>
    /\ UNCHANGED sineBody

\* dm.apply_shape(sin_command_object_dm2, dm_num=2)
SineApplyDm2 ==
    /\ prog = "sine" /\ pc = "apply_dm2"
    /\ \/ /\ dmShape' = Cmd("sin_dm2", SinSpecificationSecond(param), 2)
          /\ log' = Append(log, Ev("apply", "dm2", i,
                                   SinSpecificationSecond(param), 0))
          /\ pc' = "sine_image"
          /\ UNCHANGED err
       \/ /\ SineFail("apply_shape")
          /\ UNCHANGED <<dmShape, log>>
    /\ UNCHANGED sineBody

\* testbed.run_hicat_imaging(..., filename=sin_file_name_dm1, ...)
SineImage ==
    /\ prog = "sine" /\ pc = "sine_image"
    /\ \/ /\ log' = Append(log, Ev("image", "sine", i, param, exposure_time))
          /\ pc' = "sine_loop"
          /\ UNCHANGED err
       \/ /\ SineFail("run_hicat_imaging")
          /\ UNCHANGED log
    /\ UNCHANGED <<sineBody, dmShape>>

\* hicat.calibration_util.record_calibration_measurement(...), the last
\* statement of the with-block, reached when the loop ends.
SineRecord ==
    /\ prog = "sine" /\ pc = "record"
    /\ \/ /\ log' = Append(log, Ev("record_calibration", "sine", i, <<>>, 0))
          /\ pc' = "iris_exit"
          /\ UNCHANGED err
       \/ /\ SineFail("record_calibration_measurement")
          /\ UNCHANGED log
    /\ UNCHANGED <<sineBody, dmShape>>

\* Leaving the with-block: the IrisAO controller is released.
SineIrisExit ==
    /\ prog = "sine" /\ pc = "iris_exit"
    /\ irisHeld' = FALSE
    /\ released' = Append(released, "iris")
    /\ log' = Append(log, Ev("iris_exit", "iris", i, <<>>, 0))
    /\ pc' = "sine_dm_exit"
    /\ UNCHANGED <<sineFrame, err, dmHeld, params, param, i, dmShape>>

\* Leaving the with-block: the DM controller is released, and the experiment
\* returns or the exception propagates.
SineDmExit ==
    /\ prog = "sine" /\ pc = "sine_dm_exit"
    /\ dmHeld' = FALSE
    /\ released' = Append(released, "dm")
    /\ log' = Append(log, Ev("dm_exit", "dm", i, <<>>, 0))
    /\ pc' = IF err = "none" THEN "done" ELSE "raised"
    /\ UNCHANGED <<sineFrame, err, irisHeld, params, param, i, dmShape>>

(* ---------------------------- LaserSource ------------------------------ *)
\* A constructor that stores a handle without opening the connection.
LaserInit_NoOpen ==
    /\ pc = "laser_new"
    /\ laser' = "handle"
    /\ log' = Append(log, Ev("laser_init", "laser", i, 0, 0))
    /\ pc' = "laser_enter"
    /\ UNCHANGED <<conn, opens, err, entered, closeCalls, cfgVars, loopVars,
                   laser_current, dmHeld, dmShape, released>>

\* LaserSource.__init__: self.laser = self.initialize(...) opens the connection.
\* If initialize raises, no object exists and nothing is held.
LaserInit ==
    /\ pc = "laser_new"
    /\ \/ /\ laser' = "handle"
          /\ conn' = "open"
          /\ opens' = opens + 1
          /\ log' = Append(log, Ev("laser_init", "laser", i, 0, 0))
          /\ pc' = "laser_enter"
          /\ UNCHANGED err
       \/ /\ err' = "laser_source"
          /\ pc' = "raised"
          /\ UNCHANGED <<laser, conn, opens, log>>
    /\ UNCHANGED <<entered, closeCalls, cfgVars, loopVars, laser_current,
                   dmHeld, dmShape, released>>

\* LaserSource.__enter__: return self.
LaserEnter ==
    /\ pc = "laser_enter"
    /\ entered' = TRUE
    /\ log' = Append(log, Ev("laser_enter", "laser", i, 0, 0))
    /\ pc' = "set_current"
    /\ UNCHANGED <<laser, conn, opens, closeCalls, err, cfgVars, loopVars,
                   laser_current, dmHeld, dmShape, released>>

\* An __exit__ that closes but keeps the handle.
LaserExit_KeepHandle ==
    /\ pc = "laser_exit"
    /\ closeCalls' = closeCalls + 1
    /\ conn' = "closed"
    /\ released' = Append(released, "laser")
    /\ log' = Append(log, Ev("laser_exit", "laser", i, 0, 0))
    /\ pc' = IF err = "none" THEN Returned ELSE "raised"
    /\ UNCHANGED <<laser, entered, opens, err, cfgVars, loopVars, laser_current,
                   dmHeld, dmShape>>

\* LaserSource.__exit__: self.close(); self.laser = None.  It returns None, so
\* an exception of the body keeps propagating.
LaserExit ==
    /\ pc = "laser_exit"
    /\ closeCalls' = closeCalls + 1
    /\ conn' = "closed"
    /\ laser' = "none"
    /\ released' = Append(released, "laser")
    /\ log' = Append(log, Ev("laser_exit", "laser", i, 0, 0))
    /\ pc' = IF err = "none" THEN Returned ELSE "raised"
    /\ UNCHANGED <<entered, opens, err, cfgVars, loopVars, laser_current,
                   dmHeld, dmShape>>

(* ---------------------------- shared scope steps ----------------------- *)
\* laser.set_current(laser_current), first statement of the laser scope.
SetCurrent ==
    /\ pc = "set_current"
    /\ \/ /\ laser_current' = LaserCurrentFor(fpm_position)
          /\ log' = Append(log, Ev("set_current", fpm_position, i, 0, 0))
          /\ pc' = "dm_new"
          /\ UNCHANGED err
       \/ /\ err' = "set_current"
          /\ pc' = Unwind
          /\ UNCHANGED <<laser_current, log>>
    /\ UNCHANGED <<laserVars, cfgVars, loopVars, dmHeld, dmShape, released>>

\* with testbed.dm_controller() as dm
DmEnter ==
    /\ pc = "dm_new"
    /\ \/ /\ dmHeld' = TRUE
          /\ log' = Append(log, Ev("dm_enter", "dm", i, 0, 0))
          /\ pc' = IF TakesExposures THEN "apply_both"
                   ELSE IF 0 < num_iterations THEN "apply_cmd" ELSE "final_image"
          /\ UNCHANGED err
       \/ /\ err' = "dm_controller"
          /\ pc' = Unwind
          /\ UNCHANGED <<dmHeld, log>>
    /\ UNCHANGED <<laserVars, cfgVars, loopVars, laser_current, dmShape, released>>

\* leaving the DM scope
DmExit ==
    /\ pc = "dm_exit"
    /\ dmHeld' = FALSE
    /\ released' = Append(released, "dm")
    /\ log' = Append(log, Ev("dm_exit", "dm", i, 0, 0))
    /\ pc' = "laser_exit"
    /\ UNCHANGED <<laserVars, err, cfgVars, loopVars, laser_current, dmShape>>

(* ---------------------------- SpeckleNulling.experiment ---------------- *)
\* What every step of the scope bodies leaves alone.
bodyFrame == <<laserVars, cfgVars, laser_current, dmHeld, released>>

\* A call raises and the experiment swallows it and goes on to the final image.
FailAndContinue(step) ==
    /\ err' = step
    /\ pc' = IF prog = "speckle" /\ dmHeld THEN "final_image" ELSE Unwind
    /\ UNCHANGED <<log, loopVars, dmShape>>

\* A call raises: the exception leaves the scopes, nothing else happens.
Fail(step) ==
    /\ err' = step
    /\ pc' = Unwind
    /\ UNCHANGED <<log, loopVars, dmShape>>

\* dm.apply_shape(current_command_object, 1)
ApplyCmd ==
    /\ pc = "apply_cmd"
    /\ \/ /\ dmShape' = Cmd("cmd", data, 0)
          /\ log' = Append(log, Ev("apply", "cmd", i, data, 0))
          /\ pc' = "dark_zone"
          /\ UNCHANGED <<err, loopVars>>
       \/ Fail("apply_shape")
    /\ UNCHANGED bodyFrame

\* A dark-zone test that is always given the configured exposure time.
TestDarkZone_FromConfigured ==
    /\ pc = "dark_zone"
    /\ \E t \in ExposureTimes :
          /\ auto_exposure_time' = t
          /\ log' = Append(log, Ev("dark_zone", "cmd", i, exposure_time, t))
          /\ pc' = "image_cmd"
          /\ UNCHANGED <<err, i, k, data, initial_data, dmShape>>
    /\ UNCHANGED bodyFrame

\* auto_exposure_time = speckle_nulling.test_dark_zone_intensity(auto_exposure_time, 2, ...)
TestDarkZone ==
    /\ pc = "dark_zone"
    /\ \/ \E t \in ExposureTimes :
            /\ auto_exposure_time' = t
            /\ log' = Append(log, Ev("dark_zone", "cmd", i, auto_exposure_time, t))
            /\ pc' = "image_cmd"
            /\ UNCHANGED <<err, i, k, data, initial_data, dmShape>>
       \/ Fail("test_dark_zone_intensity")
    /\ UNCHANGED bodyFrame

\* testbed.run_hicat_imaging(auto_exposure_time, ..., path=iteration_path, ...)
ImageCmd ==
    /\ pc = "image_cmd"
    /\ \/ /\ log' = Append(log, Ev("image", "cmd", i, 0, auto_exposure_time))
          /\ pc' = "sense"
          /\ UNCHANGED <<err, loopVars, dmShape>>
       \/ Fail("run_hicat_imaging")
    /\ UNCHANGED bodyFrame

\* speckle_nulling.speckle_sensing(coron_path); then the phase loop starts.
Sense ==
    /\ pc = "sense"
    /\ \/ /\ log' = Append(log, Ev("sense", "cmd", i, 0, 0))
          /\ k' = 1
          /\ pc' = "phase_apply"
          /\ UNCHANGED <<err, i, data, initial_data, auto_exposure_time, dmShape>>
       \/ Fail("speckle_sensing")
    /\ UNCHANGED bodyFrame

\* A phase probe that is added into the running command itself.
PhaseApply_InPlace ==
    /\ pc = "phase_apply"
    /\ data' = data + phase_list[k]
    /\ dmShape' = Cmd("phase", data', phase_list[k])
    /\ log' = Append(log, Ev("apply", "phase", i, phase_list[k], 0))
    /\ pc' = "phase_image"
    /\ UNCHANGED <<err, i, k, initial_data, auto_exposure_time>>
    /\ UNCHANGED bodyFrame

\* new_command = sin_command(... phi, initial_data=current_command_object.data)
\* dm.apply_shape(new_command, 1)
PhaseApply ==
    /\ pc = "phase_apply"
    /\ \/ /\ dmShape' = SinCommand("phase", data, phase_list[k])
          /\ log' = Append(log, Ev("apply", "phase", i, phase_list[k], 0))
          /\ pc' = "phase_image"
          /\ UNCHANGED <<err, loopVars>>
       \/ Fail("apply_shape")
    /\ UNCHANGED bodyFrame

\* testbed.run_hicat_imaging(auto_exposure_time, ..., path=phase_path, ...)
PhaseImage ==
    /\ pc = "phase_image"
    /\ \/ /\ log' = Append(log, Ev("image", "phase", i, phase_list[k], auto_exposure_time))
          /\ IF k < Len(phase_list)
                THEN k' = k + 1 /\ pc' = "phase_apply"
                ELSE k' = k /\ pc' = "phase_ctl"
          /\ UNCHANGED <<err, i, data, initial_data, auto_exposure_time, dmShape>>
       \/ Fail("run_hicat_imaging")
    /\ UNCHANGED bodyFrame

\* Phase control that goes straight to amplitude control, with no amplitude sweep.
ControlPhase_SkipSweep ==
    /\ pc = "phase_ctl"
    /\ log' = Append(log, Ev("control_phase", "cmd", i, 0, 0))
    /\ pc' = "ampl_ctl"
    /\ UNCHANGED <<err, loopVars, dmShape, laserVars, cfgVars, laser_current,
                   dmHeld, released>>

\* new_phase = speckle_nulling.speckle_control_phase(...); then the amplitude loop.
ControlPhase ==
    /\ pc = "phase_ctl"
    /\ \/ /\ log' = Append(log, Ev("control_phase", "cmd", i, 0, 0))
          /\ k' = 1
          /\ pc' = "ampl_apply"
          /\ UNCHANGED <<err, i, data, initial_data, auto_exposure_time, dmShape>>
       \/ Fail("speckle_control_phase")
    /\ UNCHANGED bodyFrame

\* new_command = sin_command(... peak_to_valley_new * ampl_ptv, new_phase ...,
\*                           initial_data=current_command_object.data)
\* dm.apply_shape(new_command, 1)
AmplApply ==
    /\ pc = "ampl_apply"
    /\ \/ /\ dmShape' = SinCommand("ampl", data, amplitude_coeff_list[k])
          /\ log' = Append(log, Ev("apply", "ampl", i, amplitude_coeff_list[k], 0))
          /\ pc' = "ampl_image"
          /\ UNCHANGED <<err, loopVars>>
       \/ Fail("apply_shape")
    /\ UNCHANGED bodyFrame

\* testbed.run_hicat_imaging(auto_exposure_time, ..., path=amplitude_path, ...)
AmplImage ==
    /\ pc = "ampl_image"
    /\ \/ /\ log' = Append(log, Ev("image", "ampl", i, amplitude_coeff_list[k],
                                   auto_exposure_time))
          /\ IF k < Len(amplitude_coeff_list)
                THEN k' = k + 1 /\ pc' = "ampl_apply"
                ELSE k' = k /\ pc' = "ampl_ctl"
          /\ UNCHANGED <<err, i, data, initial_data, auto_exposure_time, dmShape>>
       \/ Fail("run_hicat_imaging")
    /\ UNCHANGED bodyFrame

\* new_amplitude_tmp = speckle_nulling.speckle_control_amplitude(...)
ControlAmplitude ==
    /\ pc = "ampl_ctl"
    /\ \/ /\ log' = Append(log, Ev("control_amplitude", "cmd", i, 0, 0))
          /\ pc' = "accumulate"
          /\ UNCHANGED <<err, loopVars, dmShape>>
       \/ Fail("speckle_control_amplitude")
    /\ UNCHANGED bodyFrame

\* The correction replaces the running command instead of adding to it.
AccumulatedOverwrite(d, c) == c

\* The running command after the correction command's data c is added to it.
Accumulated(d, c) == d + c

\* phase_correction_command = sin_command(SinSpecification(...))
\* current_command_object.data += phase_correction_command.data
\* and the for loop goes to its next iteration, or ends.
Accumulate ==
    /\ pc = "accumulate"
    /\ \/ \E c \in Corrections :
            /\ data' = Accumulated(data, c)
            /\ log' = Append(log, Ev("add", "cmd", i, c, 0))
            /\ i' = i + 1
            /\ pc' = IF i + 1 < num_iterations THEN "apply_cmd" ELSE "final_image"
            /\ UNCHANGED <<err, k, initial_data, auto_exposure_time, dmShape>>
       \/ Fail("sin_command")
    /\ UNCHANGED bodyFrame

\* A final image taken with the auto-tuned exposure time.
FinalImage_AutoExposure ==
    /\ pc = "final_image"
    /\ log' = Append(log, Ev("image", "final", i, 0, auto_exposure_time))
    /\ pc' = Unwind
    /\ UNCHANGED <<err, loopVars, dmShape>>
    /\ UNCHANGED bodyFrame

\* testbed.run_hicat_imaging(self.exposure_time, ..., exposure_set_name="final", ...)
FinalImage ==
    /\ pc = "final_image"
    /\ \/ /\ log' = Append(log, Ev("image", "final", i, 0, exposure_time))
          /\ pc' = Unwind
          /\ UNCHANGED <<err, loopVars, dmShape>>
       \/ Fail("run_hicat_imaging")
    /\ UNCHANGED bodyFrame

(* ---------------------------- take_exposures --------------------------- *)
\* dm.apply_shape_to_both(dm1_command_object, dm2_command_object)
ApplyBoth ==
    /\ pc = "apply_both"
    /\ \/ /\ dmShape' = Cmd("both", data, 0)
          /\ log' = Append(log, Ev("apply", "both", i, data, 0))
          /\ pc' = "te_image"
          /\ UNCHANGED <<err, loopVars>>
       \/ Fail("apply_shape_to_both")
    /\ UNCHANGED bodyFrame

\* return testbed.run_hicat_imaging(exposure_time, num_exposures, fpm_position, ...)
TakeImage ==
    /\ pc = "te_image"
    /\ \/ /\ log' = Append(log, Ev("image", "both", i,
                                   KwargCentering(fpm_position), exposure_time))
          /\ pc' = Unwind
          /\ UNCHANGED <<err, loopVars, dmShape>>
       \/ Fail("run_hicat_imaging")
    /\ UNCHANGED bodyFrame

(* ---------------------------- Stage ------------------------------------ *)
\* What a Stage operation leaves alone.
stageFrame == <<prog, expVars, stageOp, wait, position, distance, stageCfg, devVars>>

\* What the steps of a move operation before goto_steps leave unchanged.
moveFrame == <<prog, expVars, stageOp, wait, stageCfg, devVars, elapsed, polls>>

\* Whole steps rounded down instead of towards zero.
StepsOf_Floor(q) == q \div (2 * 256)

\* goto_steps: u_pos, pos = math.modf(position); the arguments of command_move
\* are int(pos) and int(u_pos * 256).  q is the position in 1/512 step.
StepsOf(q) == Trunc(q, 2 * 256)

MicroStepsOf(q) == Trunc(q - (2 * 256) * StepsOf(q), 2)

\* A vendor call whose result is not looked at.
VendorCallUnchecked(fn, a, b, msg, okpc) ==
    \E r \in Results :
        /\ log' = Append(log, Ev(fn, r, 0, a, b))
        /\ pc' = okpc
        /\ UNCHANGED err

\* result = lib.<fn>(...); if result != Result.Ok: raise RuntimeError(msg)
\* otherwise the operation goes on at okpc.
VendorCall(fn, a, b, msg, okpc) ==
    \E r \in Results :
        /\ log' = Append(log, Ev(fn, r, 0, a, b))
        /\ IF r = "Ok"
              THEN pc' = okpc /\ UNCHANGED err
              ELSE pc' = "raised" /\ err' = msg

\* Stage.get_home_settings, also the first call of Stage.home.
GetHomeSettings ==
    /\ prog = "stage" /\ pc = "stage_start"
    /\ stageOp \in {"get_home_settings", "home"}
    /\ VendorCall("get_home_settings", 0, 0, "get_home_settings() failed",
                  IF stageOp = "home" THEN "home_set" ELSE "done")
    /\ UNCHANGED <<stageFrame, elapsed, polls>>

\* hmst.HomeDelta = int(self.homeOffset)
HomeDeltaOf(ho) == Trunc(ho, 2 * 256)

\* The fractional part converted to 1/256 microsteps, as goto_steps does.
UHomeDeltaOf_Microsteps(u) == Trunc(u, 2)

\* hmst.uHomeDelta = int(self.u_homeOffset)
UHomeDeltaOf(u) == Trunc(u, 2 * 256)

\* Stage.set_home_settings, also the second call of Stage.home, which writes
\* the settings it read back with HomeDelta and uHomeDelta replaced.
SetHomeSettings ==
    /\ prog = "stage"
    /\ \/ stageOp = "set_home_settings" /\ pc = "stage_start"
       \/ stageOp = "home" /\ pc = "home_set"
    /\ VendorCall("set_home_settings",
                  IF stageOp = "home" THEN HomeDeltaOf(homeOffset) ELSE 0,
                  IF stageOp = "home" THEN UHomeDeltaOf(u_homeOffset) ELSE 0,
                  "set_home_settings() failed",
                  IF stageOp = "home" THEN "home_zero" ELSE "done")
    /\ UNCHANGED <<stageFrame, elapsed, polls>>

\* Stage.home, after the settings were read and written back:
\* result = lib.command_homezero(self.instrument)
Home ==
    /\ prog = "stage" /\ stageOp = "home" /\ pc = "home_zero"
    /\ VendorCall("command_homezero", 0, 0, "command_homezero failed", "done")
    /\ UNCHANGED <<stageFrame, elapsed, polls>>

\* Where an operation X starts: at the start of the call when X itself was
\* called, at "X" when another operation calls it.
EntryOf(op) == IF stageOp = op THEN "stage_start" ELSE op

\* position / self.conversionFactor turned into a product.
Divide_Multiply(q, cf) == (q * cf[1]) \div cf[2]

\* position / self.conversionFactor and distance / self.conversionFactor, for
\* a factor cf = <<numerator, denominator>>.
Divide(q, cf) == (q * cf[2]) \div cf[1]

\* Stage.absolute_move: dispatch on units.
AbsoluteMove ==
    /\ prog = "stage" /\ stageOp = "absolute_move" /\ pc = "stage_start"
    /\ IF units = "STEPS" THEN pc' = "goto_steps" /\ UNCHANGED err
       ELSE IF units = "REAL" THEN pc' = "goto_real" /\ UNCHANGED err
       ELSE pc' = "raised" /\ err' = "NotImplementedError"
    /\ UNCHANGED <<moveFrame, log, position, distance>>

\* Stage.relative_move: dispatch on units.
RelativeMove ==
    /\ prog = "stage" /\ stageOp = "relative_move" /\ pc = "stage_start"
    /\ IF units = "STEPS" THEN pc' = "offset_steps" /\ UNCHANGED err
       ELSE IF units = "REAL" THEN pc' = "offset_real" /\ UNCHANGED err
       ELSE pc' = "raised" /\ err' = "NotImplementedError"
    /\ UNCHANGED <<moveFrame, log, position, distance>>

\* Stage.goto_real: position = position / self.conversionFactor, then
\* goto_steps(position, wait=wait).
GotoReal ==
    /\ prog = "stage" /\ stageOp \in AbsoluteOps /\ pc = EntryOf("goto_real")
    /\ position' = Divide(position, conversionFactor)
    /\ pc' = "goto_steps"
    /\ UNCHANGED <<moveFrame, log, err, distance>>

\* Stage.offset_real: distance = distance / self.conversionFactor, then
\* offset_steps(distance, wait=wait).
OffsetReal ==
    /\ prog = "stage" /\ stageOp \in RelativeOps /\ pc = EntryOf("offset_real")
    /\ distance' = Divide(distance, conversionFactor)
    /\ pc' = "offset_steps"
    /\ UNCHANGED <<moveFrame, log, err, position>>

\* Stage.offset_steps: currentPosition = self.get_enc_position();
\* newPosition = currentPosition + distance; goto_steps(newPosition, wait).
OffsetSteps ==
    /\ prog = "stage" /\ stageOp \in RelativeOps /\ pc = EntryOf("offset_steps")
    /\ \E EncPosition \in EncPositions :
          /\ VendorCall("get_position", EncPosition, 0, "get_position() failed",
                        "goto_steps")
          /\ position' = (IF pc' = "goto_steps"
                             THEN (2 * 256) * EncPosition + distance
                             ELSE position)
    /\ UNCHANGED <<moveFrame, distance>>

\* goto_steps that refuses a position outside the soft stops.
GotoSteps_SoftStopped ==
    /\ prog = "stage" /\ stageOp \in MoveOps \cup {"goto_steps"}
    /\ pc = EntryOf("goto_steps")
    /\ IF position < softStops[1] \/ position > softStops[2]
          THEN pc' = "raised" /\ err' = "outside soft stops" /\ UNCHANGED log
          ELSE \E r \in Results :
                 /\ log' = Append(log, Ev("command_move", r, 0,
                                          Trunc(position, 2 * 256),
                                          Trunc(FractionalPart(position), 2)))
                 /\ IF r = "Ok"
                       THEN pc' = (IF wait THEN "await" ELSE "done")
                            /\ UNCHANGED err
                       ELSE pc' = "raised" /\ err' = "command_move() failed"
    /\ UNCHANGED <<stageFrame, elapsed, polls>>

\* goto_steps that never waits.
GotoSteps_NeverWait ==
    /\ prog = "stage" /\ stageOp \in MoveOps \cup {"goto_steps"}
    /\ pc = EntryOf("goto_steps")
    /\ \E r \in Results :
          /\ log' = Append(log, Ev("command_move", r, 0, StepsOf(position),
                                   MicroStepsOf(position)))
          /\ IF r = "Ok"
                THEN pc' = "done" /\ UNCHANGED err
                ELSE pc' = "raised" /\ err' = "command_move() failed"
    /\ UNCHANGED <<stageFrame, elapsed, polls>>

\* Stage.goto_steps up to "if wait: self.await_stop()".
GotoSteps ==
    /\ prog = "stage" /\ stageOp \in MoveOps \cup {"goto_steps"}
    /\ pc = EntryOf("goto_steps")
    /\ VendorCall("command_move", StepsOf(position), MicroStepsOf(position),
                  "command_move() failed", IF wait THEN "await" ELSE "done")
    /\ UNCHANGED <<stageFrame, elapsed, polls>>

\* Stage.set_speed: get_move_settings, then set_move_settings.
SetSpeed ==
    /\ prog = "stage" /\ stageOp = "set_speed"
    /\ \/ /\ pc = "stage_start"
          /\ VendorCall("get_move_settings", 0, 0, "get_move_settings() failed",
                        "speed_set")
       \/ /\ pc = "speed_set"
          /\ VendorCall("set_move_settings", 0, 0, "set_move_settings() failed",
                        "done")
    /\ UNCHANGED <<stageFrame, elapsed, polls>>

\* Stage.get_speed
GetSpeed ==
    /\ prog = "stage" /\ stageOp = "get_speed" /\ pc = "stage_start"
    /\ VendorCall("get_move_settings", 0, 0, "get_move_settings() failed", "done")
    /\ UNCHANGED <<stageFrame, elapsed, polls>>

\* Stage.is_moving: return deviceStatus.MvCmdSts == 129
MovingStatus(MvCmdSts) == MvCmdSts = 129

IsMoving ==
    /\ prog = "stage" /\ stageOp = "is_moving" /\ pc = "stage_start"
    /\ \E s \in MvCmdStsValues :
          VendorCall("get_status", s, 0, "get_status() failed", "done")
    /\ UNCHANGED <<stageFrame, elapsed, polls>>

\* Stage.get_step_position and Stage.get_enc_position
GetPosition ==
    /\ prog = "stage" /\ pc = "stage_start"
    /\ stageOp \in {"get_step_position", "get_enc_position"}
    /\ VendorCall("get_position", 0, 0, "get_position() failed", "done")
    /\ UNCHANGED <<stageFrame, elapsed, polls>>

\* Stage.stop
Stop ==
    /\ prog = "stage" /\ stageOp = "stop" /\ pc = "stage_start"
    /\ VendorCall("command_sstp", 0, 0, "Soft stop failed", "done")
    /\ UNCHANGED <<stageFrame, elapsed, polls>>

\* Stage.await_stop(timeout=10*60, poll_interval=1)
AwaitTimeout == 600

PollInterval == 1

\* catkit.util.poll_status((False,), self.is_moving, timeout, poll_interval):
\* one round of its loop.  It calls is_moving; an exception of is_moving
\* propagates; a status in break_states ends the wait; otherwise it sleeps
\* poll_interval and raises once timeout seconds have passed.
PollStatus ==
    /\ prog = "stage" /\ pc = "await"
    /\ polls' = polls + 1
    /\ \E r \in Results, s \in MvCmdStsValues :
          /\ log' = Append(log, Ev("get_status", r, 0, s, 0))
          /\ IF r # "Ok"
                THEN pc' = "raised" /\ err' = "get_status() failed"
                     /\ UNCHANGED elapsed
                ELSE IF ~MovingStatus(s)
                THEN pc' = "done" /\ UNCHANGED <<err, elapsed>>
                ELSE /\ elapsed' = elapsed + PollInterval
                     /\ IF elapsed' >= AwaitTimeout
                           THEN pc' = "raised" /\ err' = "poll_status timed out"
                           ELSE pc' = "await" /\ UNCHANGED err
    /\ UNCHANGED stageFrame

(* ---------------------------- device scan ----------------------------- *)
\* repr(item) of a device name, a bytes object: b'<name>'.
Repr(item) == <<"b", "'">> \o item \o <<"'">>

\* Python "t in s" for strings.
Contains(s, t) ==
    \E a \in 0..(Len(s) - Len(t)) : SubSeq(s, a + 1, a + Len(t)) = t

\* The identifier has to be the whole device name.
MatchesId_Exact(item, id) == item = id

\* id_str in repr(item)
MatchesId(item, id) == Contains(Repr(item), id)

devFrame == <<prog, expVars, stageOp, wait, position, distance, stageCfg,
              elapsed, polls, devenum, id_str>>

\* scan_for_devices: devenum = lib.enumerate_devices(probe_flags, None);
\* dev_count = lib.get_device_count(devenum); devices_list = [].
EnumerateDevices ==
    /\ prog = "devices" /\ pc = "stage_start"
    /\ log' = Append(log, Ev("enumerate_devices", "Ok", 0, Len(devenum), 0))
    /\ dev_ind' = 0
    /\ devices_list' = <<>>
    /\ pc' = "scan_loop"
    /\ UNCHANGED <<devFrame, err, ret>>

\* scan_for_devices, one round of "for dev_ind in range(dev_count)".
ScanDevice ==
    /\ prog = "devices" /\ pc = "scan_loop" /\ dev_ind < Len(devenum)
    /\ LET dev == devenum[dev_ind + 1] IN
          /\ log' = Append(log, Ev("get_enumerate_device_controller_name",
                                   dev.result, dev_ind, 0, 0))
          /\ devices_list' = (IF dev.result = "Ok"
                                 THEN Append(devices_list, dev.name)
                                 ELSE devices_list)
    /\ dev_ind' = dev_ind + 1
    /\ UNCHANGED <<devFrame, pc, err, ret>>

\* scan_for_devices: return devices_list, to the caller of the class method
\* or to get_device_id.
ScanReturn ==
    /\ prog = "devices" /\ pc = "scan_loop" /\ dev_ind = Len(devenum)
    /\ IF stageOp = "scan_for_devices"
          THEN pc' = "done" /\ ret' = devices_list
          ELSE pc' = "match" /\ UNCHANGED ret
    /\ UNCHANGED <<devFrame, log, err, dev_ind, devices_list>>

\* get_device_id after the scan.  The message of the second RuntimeError is
\* built from id_str and device_list, which the logged record carries.
GetDeviceId ==
    /\ prog = "devices" /\ stageOp = "get_device_id" /\ pc = "match"
    /\ LET found == {n \in 1..Len(devices_list) : MatchesId(devices_list[n], id_str)} IN
       IF devices_list = <<>>
          THEN /\ pc' = "raised" /\ err' = "No devices found."
               /\ UNCHANGED <<log, ret>>
       ELSE IF found # {}
          THEN /\ pc' = "done"
               /\ ret' = <<devices_list[CHOOSE n \in found : \A x \in found : n <= x]>>
               /\ UNCHANGED <<log, err>>
          ELSE /\ pc' = "raised" /\ err' = "not present in device list"
               /\ log' = Append(log, Ev("RuntimeError", "not present", 0, id_str,
                                        devices_list))
               /\ UNCHANGED ret
    /\ UNCHANGED <<devFrame, dev_ind, devices_list>>

(* ---------------------------- specification ---------------------------- *)
Next ==
    \/ BuildInitialCommand
    \/ LaserInit
    \/ LaserEnter
    \/ LaserExit
    \/ SetCurrent
    \/ DmEnter
    \/ DmExit
    \/ ApplyCmd
    \/ TestDarkZone
    \/ ImageCmd
    \/ Sense
    \/ PhaseApply
    \/ PhaseImage
    \/ ControlPhase
    \/ AmplApply
    \/ AmplImage
    \/ ControlAmplitude
    \/ Accumulate
    \/ FinalImage
    \/ ApplyBoth
    \/ TakeImage

Spec == Init /\ [][Next]_vars

StageNext ==
    \/ AbsoluteMove
    \/ RelativeMove
    \/ GotoReal
    \/ OffsetReal
    \/ OffsetSteps
    \/ GetHomeSettings
    \/ SetHomeSettings
    \/ Home
    \/ GotoSteps
    \/ SetSpeed
    \/ GetSpeed
    \/ IsMoving
    \/ GetPosition
    \/ Stop
    \/ PollStatus

\* The Stage code is single-threaded and blocking: a call that can take its
\* next step takes it (time.sleep returns), hence weak fairness.
StageSpec == StageInit /\ [][StageNext]_vars /\ WF_vars(StageNext)

CoffeeNext ==
    \/ CoffeeLoop
    \/ CoffeeCall
    \/ CoffeeReturn
    \/ LaserInit
    \/ LaserEnter
    \/ LaserExit
    \/ SetCurrent
    \/ DmEnter
    \/ DmExit
    \/ ApplyBoth
    \/ TakeImage

CoffeeSpec == CoffeeInit /\ [][CoffeeNext]_vars

SineNext ==
    \/ SineStart
    \/ SineDmEnter
    \/ SineIrisEnter
    \/ SineFlatBoth
    \/ SineIrisFlat
    \/ SineBaseline
    \/ SineLoop
    \/ SineCommands
    \/ SineApplyDm1
    \/ SineApplyDm2
    \/ SineImage
    \/ SineRecord
    \/ SineIrisExit
    \/ SineDmExit

SineSpec == SineInit /\ [][SineNext]_vars

DeviceNext ==
    \/ EnumerateDevices
    \/ ScanDevice
    \/ ScanReturn
    \/ GetDeviceId

DeviceSpec == DeviceInit /\ [][DeviceNext]_vars

(* ---------------------------- properties ------------------------------- *)
Ended == pc \in {"done", "raised"}

InScopeProg == prog \in {"speckle", "take_exposures"}

\* Number of logged calls of operation op.
Count(s, op) == Cardinality({j \in 1..Len(s) : s[j].op = op})

\* Whether s is a prefix of t.
IsPrefix(s, t) == Len(s) <= Len(t) /\ \A j \in 1..Len(s) : s[j] = t[j]

\* C1: once the scope of a LaserSource has been entered, leaving it (normally or
\* through an exception of the body) has called close() exactly once and left
\* self.laser None; while the scope is open close() has not been called.
C1_ScopeExitClosesOnce ==
    (InScopeProg /\ entered) =>
        IF Ended THEN closeCalls = 1 /\ laser = "none"
                 ELSE closeCalls = 0 /\ laser = "handle"

\* C1 witness: the scope was left through an exception raised in its body.
C1_Witness ==
    /\ entered /\ pc = "raised" /\ err = "run_hicat_imaging"
    /\ closeCalls = 1 /\ laser = "none"

\* C2: when an error reaches the caller, every resource that was acquired has
\* been released, the DM controller before the laser source.
C2_ReleasedBeforeErrorPropagates ==
    (InScopeProg /\ pc = "raised") =>
        /\ ~dmHeld
        /\ conn = "closed"
        /\ released = (IF Count(log, "dm_enter") > 0 THEN <<"dm">> ELSE <<>>)
                      \o (IF Count(log, "laser_init") > 0 THEN <<"laser">> ELSE <<>>)

\* C2 witness: a control step of the second iteration raised; both were released.
C2_Witness ==
    /\ prog = "speckle" /\ pc = "raised" /\ err = "speckle_control_phase"
    /\ i = 1 /\ released = <<"dm", "laser">>

\* C3 as stated: a LaserSource whose scope has not been entered holds no open
\* connection (the connection would be opened by __enter__).
C3_OpenedOnEnter == (InScopeProg /\ ~entered) => conn = "closed"

\* C3 amended: the connection is opened by the constructor; a constructed
\* source whose scope is not yet entered holds an open connection, __enter__
\* opens nothing, and a scope that was entered and left has closed the one
\* connection that was opened.
C3_OpenedByConstructor ==
    InScopeProg =>
        /\ (pc = "laser_enter" => laser = "handle" /\ conn = "open" /\ opens = 1 /\ ~entered)
        /\ (entered => opens = 1)
        /\ (entered /\ ~Ended => conn = "open")
        /\ (entered /\ Ended => opens = closeCalls /\ conn = "closed")

\* C3 witness: constructed, scope not entered, connection open.
C3_Witness == pc = "laser_enter" /\ ~entered /\ conn = "open" /\ laser = "handle"

\* The calls of the iteration bodies, as <<operation, kind, iteration, probe>>.
IterationOps == {"apply", "dark_zone", "image", "sense", "control_phase",
                 "control_amplitude", "add"}

IsIterationCall(e) == e.op \in IterationOps /\ e.kind # "final"

Shape(e) == <<e.op, e.kind, e.it,
              IF e.kind \in {"phase", "ampl"} THEN e.arg ELSE 0>>

IterationCalls ==
    LET s == SelectSeq(log, IsIterationCall)
    IN  [j \in 1..Len(s) |-> Shape(s[j])]

\* The nine steps of iteration it, in the order the claim gives: 12 phase
\* probes at 0, 30, ..., 330 degrees, 7 amplitude probes at 0.1, 0.4, ..., 1.9
\* (in tenths), each probe applied and then imaged.
ExpectedSweep(kind, it, values) ==
    [j \in 1..(2 * Len(values)) |->
        <<IF j % 2 = 1 THEN "apply" ELSE "image", kind, it, values[(j + 1) \div 2]>>]

ExpectedPhases == [n \in 1..12 |-> 30 * (n - 1)]

ExpectedAmplitudes == [n \in 1..7 |-> 3 * n - 2]

ExpectedIteration(it) ==
    <<  <<"apply", "cmd", it, 0>>, <<"dark_zone", "cmd", it, 0>>,
        <<"image", "cmd", it, 0>>, <<"sense", "cmd", it, 0>> >>
    \o ExpectedSweep("phase", it, ExpectedPhases)
    \o << <<"control_phase", "cmd", it, 0>> >>
    \o ExpectedSweep("ampl", it, ExpectedAmplitudes)
    \o << <<"control_amplitude", "cmd", it, 0>>, <<"add", "cmd", it, 0>> >>

RECURSIVE ExpectedIterations(_)
ExpectedIterations(n) ==
    IF n = 0 THEN <<>> ELSE ExpectedIterations(n - 1) \o ExpectedIteration(n - 1)

\* C4: the calls made by the iterations are, at every moment, a prefix of the
\* nine steps of iteration 0, then those of iteration 1, and so on: the steps
\* of an iteration are in the fixed order and no step of iteration i+1 comes
\* before the accumulation step of iteration i.
C4_FixedStepOrder ==
    prog = "speckle" => IsPrefix(IterationCalls, ExpectedIterations(num_iterations))

\* C4 witness: the second iteration is in its amplitude sweep.
C4_Witness ==
    /\ prog = "speckle" /\ i = 1 /\ pc = "ampl_image" /\ k = 3
    /\ Len(IterationCalls) > Len(ExpectedIteration(0))

\* The probe values applied in iteration it, in order.
ProbesOf(kind, it) ==
    LET Is(e) == e.op = "apply" /\ e.kind = kind /\ e.it = it
        s == SelectSeq(log, Is)
    IN  [j \in 1..Len(s) |-> s[j].arg]

\* C5: a run of num_iterations = N that met no error made 20*N apply_shape
\* calls and 20*N + 1 imaging calls: per iteration one for the running
\* command, the 12 phase probes and the 7 amplitude probes, plus the final
\* image; with N = 0 the DM received no command.
C5_CallCounts ==
    (prog = "speckle" /\ pc = "done") =>
        /\ Count(log, "apply") = 20 * num_iterations
        /\ Count(log, "image") = 20 * num_iterations + 1
        /\ \A it \in 0..(num_iterations - 1) :
              /\ Len(ProbesOf("cmd", it)) = 1
              /\ ProbesOf("phase", it) = ExpectedPhases
              /\ ProbesOf("ampl", it) = ExpectedAmplitudes
        /\ log[Len(log) - 2].op = "image" /\ log[Len(log) - 2].kind = "final"
        /\ (num_iterations = 0 => dmShape = NoCmd)

\* C5 witness: a complete run of two iterations.
C5_Witness ==
    /\ prog = "speckle" /\ pc = "done" /\ num_iterations = 2
    /\ Count(log, "apply") = 40 /\ Count(log, "image") = 41

\* Sum of the correction data added by the first n calls of the log.
RECURSIVE SumAdds(_)
SumAdds(n) ==
    IF n = 0 THEN 0
    ELSE SumAdds(n - 1) + (IF log[n].op = "add" THEN log[n].arg ELSE 0)

AddsBefore(n) == Cardinality({j \in 1..n : log[j].op = "add"})

\* C6: after k completed iterations the running command's data is the initial
\* data plus the k corrections computed so far, and the command applied at
\* the start of iteration k is that accumulated command.
C6_Accumulation ==
    prog = "speckle" =>
        /\ i = AddsBefore(Len(log))
        /\ data = initial_data + SumAdds(Len(log))
        /\ \A j \in 1..Len(log) :
              (log[j].op = "apply" /\ log[j].kind = "cmd") =>
                  /\ log[j].it = AddsBefore(j)
                  /\ log[j].arg = initial_data + SumAdds(j)

\* C6 witness: two iterations are complete (corrections 2, then -1) and the
\* second one began by applying the initial data plus the first correction.
C6_Witness ==
    /\ prog = "speckle" /\ pc = "final_image" /\ i = 2
    /\ data = initial_data + 1
    /\ \E j \in 1..Len(log) :
          /\ log[j].op = "apply" /\ log[j].kind = "cmd" /\ log[j].it = 1
          /\ log[j].arg = initial_data + 2

\* C7: once a call has raised, no apply_shape call and no imaging call is
\* made any more, the error stays, and the only steps left are the releases
\* that hand the error to the caller.
C7_NoRetry ==
    [][(prog = "speckle" /\ err # "none") =>
          /\ Count(log', "apply") = Count(log, "apply")
          /\ Count(log', "image") = Count(log, "image")
          /\ err' = err
          /\ pc \in {"dm_exit", "laser_exit"}
          /\ pc' \in {"laser_exit", "raised"}]_vars

\* C7 witness: an imaging call of the first phase sweep raised in a run that
\* was to make two iterations; the error reached the caller.
C7_Witness ==
    /\ prog = "speckle" /\ pc = "raised" /\ err = "run_hicat_imaging"
    /\ num_iterations = 2 /\ i = 0 /\ k = 3
    /\ Count(log, "apply") = 4 /\ Count(log, "image") = 3

\* The fixed message each vendor call is translated to when it fails.
FixedMessage(fn) ==
    CASE fn = "get_home_settings" -> "get_home_settings() failed"
      [] fn = "set_home_settings" -> "set_home_settings() failed"
      [] fn = "command_homezero"  -> "command_homezero failed"
      [] fn = "command_move"      -> "command_move() failed"
      [] fn = "get_move_settings" -> "get_move_settings() failed"
      [] fn = "set_move_settings" -> "set_move_settings() failed"
      [] fn = "get_status"        -> "get_status() failed"
      [] fn = "get_position"      -> "get_position() failed"
      [] fn = "command_sstp"      -> "Soft stop failed"

\* C8: a vendor call that returned a result other than Ok is the last thing
\* the Stage operation did, and the operation raised with that call's fixed
\* message; in particular no wait follows a failed command_move, no
\* command_homezero follows failed home settings, and no set_move_settings
\* follows a failed get_move_settings.
C8_VendorFailureRaises ==
    prog = "stage" =>
        \A j \in 1..Len(log) :
            log[j].kind # "Ok" =>
                /\ j = Len(log)
                /\ pc = "raised"
                /\ err = FixedMessage(log[j].op)
                /\ polls = (IF stageOp = "goto_steps" THEN j - 1 ELSE 0)

\* C8 witness: home failed in writing the home settings back; command_homezero
\* was not issued.
C8_Witness ==
    /\ prog = "stage" /\ stageOp = "home" /\ pc = "raised"
    /\ err = "set_home_settings() failed"
    /\ Len(log) = 2 /\ log[1].kind = "Ok" /\ log[2].kind = "NoDevice"

\* What C9 says of every state of a goto_steps call.
C9_WaitInv ==
    (prog = "stage" /\ stageOp = "goto_steps") =>
        /\ (~wait => polls = 0)
        /\ (~wait /\ pc = "done" => Len(log) = 1 /\ log[1].op = "command_move")
        /\ (polls > 0 => log[1].op = "command_move" /\ log[1].kind = "Ok")
        /\ (wait /\ pc = "done" =>
               /\ polls >= 1
               /\ log[Len(log)].op = "get_status"
               /\ log[Len(log)].kind = "Ok"
               /\ log[Len(log)].arg # 129)
        /\ polls * 1 <= 600
        /\ Len(log) = polls + 1 \/ pc = "stage_start"

\* C9: goto_steps with wait=True returns normally only after command_move
\* returned Ok and a poll then reported that the stage is not moving; it makes
\* at most 600 polls one second apart, so the call ends (returning or
\* raising) even if the stage never stops; with wait=False it returns right
\* after command_move and never polls.
C9_GotoStepsWaits ==
    /\ []C9_WaitInv
    /\ (prog = "stage" /\ stageOp = "goto_steps") ~> Ended

\* C9 witness: the stage was still moving at 599 polls and stopped at the 600th.
C9_Witness ==
    /\ prog = "stage" /\ stageOp = "goto_steps" /\ wait /\ pc = "done"
    /\ polls = 600 /\ log[Len(log)].arg = 1

\* C9 witness of the timeout: the stage never stopped and the call ended.
C9_TimeoutReached ==
    /\ prog = "stage" /\ stageOp = "goto_steps" /\ wait /\ pc = "raised"
    /\ polls = 600 /\ \A j \in 2..Len(log) : log[j].arg = 129

\* The positions in the log of the calls of operation op.
Calls(op) == {j \in 1..Len(log) : log[j].op = op}

\* The current the claim gives for an FPM position.
ExpectedCurrent == IF fpm_position = "coron" THEN "coron_current" ELSE "direct_current"

\* What C10 says of set_current: once a DM command or an imaging call has been
\* made, set_current has been called exactly once, before it, with the coron
\* current when the FPM position is coron and the direct current otherwise,
\* and the call lies inside the laser scope and the DM scope.
C10_CurrentSetFirst ==
    LET uses   == Calls("apply") \cup Calls("image")
        sets   == Calls("set_current")
        enters == Calls("laser_enter")
        dms    == Calls("dm_enter")
        exits  == Calls("dm_exit") \cup Calls("laser_exit")
    IN  uses # {} =>
            /\ Cardinality(sets) = 1
            /\ laser_current = ExpectedCurrent
            /\ \A c \in sets : log[c].kind = fpm_position
            /\ \A j \in uses :
                  /\ \A c \in sets : c < j
                  /\ \E e \in enters : e < j
                  /\ \E e \in dms : e < j
                  /\ \A x \in exits : j < x

\* Every imaging call has a DM command before it.
C10_ShapeBeforeEveryImage ==
    LET applies == Calls("apply")
    IN  \A j \in Calls("image") : \E a \in applies : a < j

\* C10 as stated: every exposure is preceded by set_current and by a DM command.
C10_EveryExposureAfterDmShape ==
    InScopeProg => C10_CurrentSetFirst /\ C10_ShapeBeforeEveryImage

\* C10 amended: set_current is called exactly once, with the current of the
\* FPM position, before the first DM command and the first imaging call; every
\* exposure is preceded by a DM command, except the final image of
\* SpeckleNulling.experiment when num_iterations = 0, which is taken with no
\* DM command applied.
C10_ExposureAfterCurrentAndShape ==
    InScopeProg =>
        /\ C10_CurrentSetFirst
        /\ IF prog = "speckle" /\ num_iterations = 0
              THEN Calls("apply") = {} /\ \A j \in Calls("image") : log[j].kind = "final"
              ELSE C10_ShapeBeforeEveryImage

\* C10 witness: take_exposures with the coronograph took its exposure.
C10_Witness ==
    /\ prog = "take_exposures" /\ pc = "done" /\ fpm_position = "coron"
    /\ laser_current = "coron_current"
    /\ Count(log, "apply") = 1 /\ Count(log, "image") = 1

\* The positions of the running program inside an iteration, after its first
\* apply_shape and up to the accumulation step.
SweepPcs == {"dark_zone", "image_cmd", "sense", "phase_apply", "phase_image",
             "phase_ctl", "ampl_apply", "ampl_image", "ampl_ctl", "accumulate"}

ProbeKinds == {"phase", "ampl"}

\* The data of the command applied at the start of the latest iteration.
AppliedAtIterationStart ==
    LET c == {j \in Calls("apply") : log[j].kind = "cmd"}
        m == CHOOSE j \in c : \A x \in c : x <= j
    IN  log[m].arg

\* C11, in every state of an iteration: the running command still has the data
\* it was applied with at the start of the iteration, and the probe the DM
\* holds was built on that data.
C11_SweepInv ==
    (prog = "speckle" /\ pc \in SweepPcs) =>
        /\ data = AppliedAtIterationStart
        /\ dmShape.kind \in ProbeKinds => dmShape.base = AppliedAtIterationStart

\* C11, in every step: once the initial command is built, only the
\* accumulation step changes the running command's data, and a probe given to
\* the DM is a new command built on the running command's data, which the step
\* leaves unchanged.
C11_SweepStep ==
    /\ (pc # "start" /\ data' # data) =>
          pc = "accumulate" /\ pc' \in {"apply_cmd", "final_image"}
    /\ (dmShape' # dmShape /\ dmShape'.kind \in ProbeKinds) =>
          /\ dmShape'.base = data
          /\ data' = data

\* C11: during the phase sweep and the amplitude sweep the running DM command
\* is left unchanged; every probe of an iteration is a new command built on the
\* same base data, and only the accumulation step modifies that data.
C11_ProbesShareBase == []C11_SweepInv /\ [][C11_SweepStep]_vars

\* C11 witness: the last amplitude probe of the second iteration is on the DM,
\* built on the data the iteration started with.
C11_Witness ==
    /\ prog = "speckle" /\ pc = "ampl_image" /\ i = 1 /\ k = 7
    /\ dmShape = Cmd("ampl", data, 19) /\ data = initial_data + 2

\* The dark-zone tests made so far, in order.
IsDarkZone(e) == e.op = "dark_zone"

DarkZoneTests == SelectSeq(log, IsDarkZone)

\* C12: the dark-zone test of iteration 0 receives the configured
\* exposure_time, the test of iteration n > 0 receives what the test of
\* iteration n-1 returned, and every imaging call of an iteration uses what
\* that iteration's test returned (20 of them in a complete iteration).
C12_ExposureCarried ==
    prog = "speckle" =>
        LET dz == DarkZoneTests IN
        /\ \A n \in 1..Len(dz) :
              /\ dz[n].it = n - 1
              /\ dz[n].arg = (IF n = 1 THEN exposure_time ELSE dz[n - 1].exp)
        /\ \A j \in Calls("image") :
              log[j].kind # "final" =>
                  /\ log[j].it < Len(dz)
                  /\ log[j].exp = dz[log[j].it + 1].exp
        /\ \A n \in 1..Len(dz) :
              n <= i =>
                  Cardinality({j \in Calls("image") :
                      log[j].it = n - 1 /\ log[j].exp = dz[n].exp}) = 20

\* C12 witness: the first test changed 100 to 250, the second test received
\* 250 and returned 100, and the second iteration is complete.
C12_Witness ==
    /\ prog = "speckle" /\ i = 2 /\ exposure_time = 100
    /\ Len(DarkZoneTests) = 2
    /\ DarkZoneTests[1].arg = 100 /\ DarkZoneTests[1].exp = 250
    /\ DarkZoneTests[2].arg = 250 /\ DarkZoneTests[2].exp = 100

BuildCalls == Calls("load_dm_command") \cup Calls("sin_command") \cup Calls("flat_command")

\* C13: the initial DM command is built from exactly one source: the stored
\* command when dm_command_path is given (initial_speckles is then ignored),
\* otherwise a sine command when initial_speckles is given, otherwise a flat
\* command.
C13_InitialCommandSource ==
    (prog = "speckle" /\ pc # "start" /\ Len(log) > 0) =>
        /\ BuildCalls = {1}
        /\ log[1].op = (IF dm_command_path = "given" THEN "load_dm_command"
                        ELSE IF initial_speckles = "given" THEN "sin_command"
                        ELSE "flat_command")
        /\ initial_data = log[1].arg
        /\ initial_data = (IF dm_command_path = "given" THEN 5
                           ELSE IF initial_speckles = "given" THEN 3 ELSE 0)

\* C13 witness: both a stored command and initial speckles were given; the
\* stored command was applied in the first iteration.
C13_Witness ==
    /\ prog = "speckle" /\ dm_command_path = "given" /\ initial_speckles = "given"
    /\ pc = "dark_zone" /\ i = 0
    /\ log[1].op = "load_dm_command" /\ dmShape = Cmd("cmd", 5, 0)

\* Stage.get_step_position: Position + (uPosition / 256), in 1/512 step.
DecodeStepPosition(Position, uPosition) == (2 * 256) * Position + 2 * uPosition

Abs(n) == IF n >= 0 THEN n ELSE -n

\* The operations that end in goto_steps.
EndsInGotoSteps == prog = "stage" /\ stageOp \in MoveOps \cup {"goto_steps"}

\* C15: goto_steps commands trunc(p) whole steps and trunc(frac(p) * 256)
\* microsteps; decoding the pair as get_step_position does gives p back when p
\* is a multiple of 1/256, otherwise a value less than 1/256 away from p and
\* towards zero; the microsteps are strictly between -256 and 256.
C15_EncodeDecodeRoundTrip ==
    EndsInGotoSteps =>
        \A j \in Calls("command_move") :
            LET decoded == DecodeStepPosition(log[j].arg, log[j].exp) IN
            /\ -256 < log[j].exp /\ log[j].exp < 256
            /\ position % 2 = 0 => decoded = position
            /\ position % 2 # 0 =>
                  /\ Abs(position - decoded) < 2
                  /\ Abs(decoded) < Abs(position)
                  /\ decoded * position >= 0

\* C15 witness: goto_steps(-3/512) commanded 0 steps and -1 microstep, which
\* decodes to -2/512.
C15_Witness ==
    /\ prog = "stage" /\ stageOp = "goto_steps" /\ position = -3 /\ pc = "done"
    /\ log[1].op = "command_move" /\ log[1].arg = 0 /\ log[1].exp = -1

\* The position a finished absolute_move handed to goto_steps, or the
\* distance a finished relative_move handed to offset_steps.
Amount == IF stageOp = "absolute_move" THEN position ELSE distance

\* C16: absolute_move and relative_move use the value unchanged with
\* Unit.STEPS and divided by conversionFactor with Unit.REAL; with any other
\* units they raise NotImplementedError before any vendor call; a relative
\* move reads the encoder position once and then commands the absolute move
\* to that position plus the distance.
C16_DispatchOnUnits ==
    (prog = "stage" /\ stageOp \in {"absolute_move", "relative_move"} /\ Ended) =>
        /\ units = "OTHER" =>
              pc = "raised" /\ err = "NotImplementedError" /\ log = <<>>
        /\ units # "OTHER" =>
              /\ err # "NotImplementedError"
              /\ Len(log) >= 1
              /\ units = "STEPS" => Amount = value
              /\ units = "REAL" =>
                    Amount * conversionFactor[1] = value * conversionFactor[2]
              /\ stageOp = "absolute_move" =>
                    /\ Len(log) = 1
                    /\ log[1].op = "command_move"
                    /\ log[1].arg = StepsOf(Amount)
                    /\ log[1].exp = MicroStepsOf(Amount)
              /\ stageOp = "relative_move" =>
                    /\ Calls("get_position") = {1}
                    /\ log[1].kind = "Ok" =>
                          /\ Len(log) = 2
                          /\ log[2].op = "command_move"
                          /\ log[2].arg = StepsOf((2 * 256) * log[1].arg + Amount)
                          /\ log[2].exp = MicroStepsOf((2 * 256) * log[1].arg + Amount)

\* C16 witness: relative_move(12/512, units=REAL) with conversionFactor 4 read
\* the encoder at 7 steps and commanded 7 steps and 1 microstep.
C16_Witness ==
    /\ prog = "stage" /\ stageOp = "relative_move" /\ units = "REAL"
    /\ conversionFactor = <<4, 1>> /\ value = 12 /\ pc = "done"
    /\ Len(log) = 2 /\ log[1].op = "get_position" /\ log[1].arg = 7
    /\ log[2].op = "command_move" /\ log[2].arg = 7 /\ log[2].exp = 1

\* C16 witness of the refusal: units is neither STEPS nor REAL.
C16_NotImplemented ==
    /\ prog = "stage" /\ stageOp = "absolute_move" /\ units = "OTHER"
    /\ pc = "raised" /\ log = <<>>

\* Whether a position lies outside the soft stops.
OutsideSoftStops(q) == q < softStops[1] \/ q > softStops[2]

\* C17: the soft stops are never enforced: a move operation that got as far
\* as goto_steps forwards its target to command_move whatever the soft stops
\* are, the commanded pair is the encoding of the target itself, and a move
\* operation that ended without command_move ended for a reason that does
\* not depend on the target.
C17_SoftStopsNotEnforced ==
    EndsInGotoSteps =>
        /\ \A j \in Calls("command_move") :
              /\ log[j].arg = StepsOf(position)
              /\ log[j].exp = MicroStepsOf(position)
        /\ (Ended /\ Calls("command_move") = {}) =>
              err \in {"NotImplementedError", "get_position() failed"}
        /\ pc \in {"done", "await"} => Calls("command_move") # {}

\* C17 witness: absolute_move(3000/512) with soft stops -1..1 step was
\* forwarded to command_move as 5 steps and 220 microsteps.
C17_Witness ==
    /\ prog = "stage" /\ stageOp = "absolute_move" /\ units = "STEPS"
    /\ value = 3000 /\ softStops = <<-512, 512>> /\ OutsideSoftStops(position)
    /\ pc = "done" /\ log[1].op = "command_move" /\ log[1].kind = "Ok"
    /\ log[1].arg = 5 /\ log[1].exp = 220

\* C18: home reads the home settings, writes them back with HomeDelta = the
\* integral part of homeOffset and uHomeDelta = 0, and only then issues
\* command_homezero.
C18_HomeWritesIntegralOffset ==
    (prog = "stage" /\ stageOp = "home") =>
        /\ \A j \in Calls("set_home_settings") :
              /\ j = 2
              /\ log[1].op = "get_home_settings" /\ log[1].kind = "Ok"
              /\ (2 * 256) * log[j].arg = homeOffset
              /\ log[j].exp = 0
        /\ \A j \in Calls("command_homezero") :
              /\ j = 3
              /\ log[2].op = "set_home_settings" /\ log[2].kind = "Ok"
        /\ pc = "done" => Len(log) = 3 /\ log[3].op = "command_homezero"

\* C18 witness: homeOffset = 1300/512 (2 steps and 276/512); home wrote
\* HomeDelta = 2 and uHomeDelta = 0, then homed.
C18_Witness ==
    /\ prog = "stage" /\ stageOp = "home" /\ pc = "done"
    /\ homeOffset = 1024 /\ u_homeOffset = 276
    /\ log[2].op = "set_home_settings" /\ log[2].arg = 2 /\ log[2].exp = 0
    /\ log[3].op = "command_homezero"

\* The devices of the enumeration whose controller-name query returned Ok.
IsOkDevice(dev) == dev.result = "Ok"

OkNames ==
    LET ok == SelectSeq(devenum, IsOkDevice)
    IN  [n \in 1..Len(ok) |-> ok[n].name]

\* C19: scan_for_devices lists, in enumeration order, exactly the devices
\* whose controller-name query returned Ok; get_device_id returns the first
\* of them whose representation contains id_str, raises "No devices found."
\* when the list is empty, and raises an error naming id_str when the list is
\* not empty and no device matches.
C19_DeviceLookup ==
    (prog = "devices" /\ pc \in {"match", "done", "raised"}) =>
        /\ devices_list = OkNames
        /\ stageOp = "scan_for_devices" => pc = "done" /\ ret = OkNames
        /\ (stageOp = "get_device_id" /\ pc # "match") =>
              LET found == {n \in 1..Len(OkNames) :
                               Contains(Repr(OkNames[n]), id_str)} IN
              /\ OkNames = <<>> =>
                    pc = "raised" /\ err = "No devices found."
              /\ (OkNames # <<>> /\ found = {}) =>
                    /\ pc = "raised" /\ err = "not present in device list"
                    /\ log[Len(log)].op = "RuntimeError"
                    /\ log[Len(log)].arg = id_str
              /\ found # {} =>
                    /\ pc = "done"
                    /\ \E n \in found :
                          /\ ret = <<OkNames[n]>>
                          /\ \A x \in found : n <= x

\* C19 witness: of two devices whose names contain "A", the first failed the
\* controller-name query; get_device_id("A") returned the second.
C19_Witness ==
    /\ prog = "devices" /\ stageOp = "get_device_id" /\ pc = "done"
    /\ id_str = <<"A">> /\ Len(devenum) = 2
    /\ devenum[1].name = <<"A", "1">> /\ devenum[1].result = "Error"
    /\ devenum[2].name = <<"A", "2">> /\ devenum[2].result = "Ok"
    /\ ret = <<<<"A", "2">>>>

\* C19 witness of the two errors.
C19_NoDevices ==
    /\ prog = "devices" /\ stageOp = "get_device_id" /\ pc = "raised"
    /\ Len(devenum) = 2 /\ err = "No devices found."

C19_NotPresent ==
    /\ prog = "devices" /\ stageOp = "get_device_id" /\ pc = "raised"
    /\ id_str = <<"C">> /\ Len(devices_list) = 2
    /\ err = "not present in device list"

\* The number of events of operation op among the first n of the log.
CountBefore(op, n) == Cardinality({j \in 1..n : log[j].op = op})

\* C20: take_coffee_data_set makes its take_exposures calls in the order
\* direct(1), coron(1), direct(2), coron(2), ... following the list, 2*L of
\* them when it returns; the direct call is given PSF centering whatever the
\* caller passed, the coron call the caller's centering, and the images are
\* taken with them; every call has released the laser and the DM controller
\* before the next call starts; at most one laser connection and one DM
\* connection are open at any time, and none is left open at the end.
C20_CoffeeDataSet ==
    prog = "coffee" =>
        LET te     == Calls("take_exposures")
            loads  == Calls("load_dm_command")
            images == Calls("image")
            held   == CountBefore("laser_init", Len(log))
                         - CountBefore("laser_exit", Len(log))
            dmOpen == CountBefore("dm_enter", Len(log))
                         - CountBefore("dm_exit", Len(log))
        IN
        /\ \A j \in te :
              LET n == CountBefore("take_exposures", j) IN
              /\ log[j].kind = (IF n % 2 = 1 THEN "direct" ELSE "coron")
              /\ log[j].it = (n - 1) \div 2
              /\ log[j].arg = (IF n % 2 = 1 THEN "psf" ELSE centering)
              /\ CountBefore("load_dm_command", j) = log[j].it + 1
              /\ CountBefore("laser_init", j) = CountBefore("laser_exit", j)
              /\ CountBefore("dm_enter", j) = CountBefore("dm_exit", j)
              /\ CountBefore("laser_init", j) <= n - 1
        /\ \A j \in loads :
              /\ log[j].arg = dm2_command_list[CountBefore("load_dm_command", j)]
              /\ CountBefore("take_exposures", j)
                    = 2 * (CountBefore("load_dm_command", j) - 1)
        /\ \A j \in images :
              LET c == CHOOSE x \in te : x < j /\ \A y \in te : y < j => y <= x IN
              /\ log[j].arg = log[c].arg
              /\ log[j - 1].op = "apply"
              /\ log[j - 1].arg = dm2_command_list[log[c].it + 1]
              /\ CountBefore("image", j) = CountBefore("take_exposures", j)
        /\ held \in {0, 1} /\ held = opens - closeCalls
        /\ (held = 1) <=> (conn = "open")
        /\ dmOpen \in {0, 1}
        /\ (dmOpen = 1) <=> dmHeld
        /\ dmOpen <= held
        /\ Ended => held = 0 /\ dmOpen = 0
        /\ pc = "done" =>
              /\ Cardinality(te) = 2 * Len(dm2_command_list)
              /\ Cardinality(images) = 2 * Len(dm2_command_list)
              /\ opens = 2 * Len(dm2_command_list)

\* C20 witness: a list of two commands and a caller's centering other than
\* PSF; four calls were made, four connections opened and closed.
C20_Witness ==
    /\ prog = "coffee" /\ pc = "done"
    /\ dm2_command_list = <<20, 10>> /\ centering = "satellite_spots"
    /\ Cardinality(Calls("take_exposures")) = 4
    /\ opens = 4 /\ closeCalls = 4 /\ ~dmHeld
    /\ \E j \in Calls("image") : log[j].arg = "psf" /\ log[j].it = 1

\* C20 witness of a failure: the second call raised inside the DM scope and
\* both resources were released.
C20_RaisedReleased ==
    /\ prog = "coffee" /\ pc = "raised" /\ err = "run_hicat_imaging"
    /\ opens = 2 /\ closeCalls = 2 /\ ~dmHeld /\ conn = "closed"

\* The number of parameter triples of the sweep.
SineTriples == Len(cycles) * Len(orientation_angles) * Len(phase_shifts)

\* C21: the flat command is applied to both DMs and the baseline image is
\* taken before any sine command is applied; then one image set is taken per
\* triple of cycles x orientation_angles x phase_shifts, in product order
\* (cycles outermost, phase shift innermost), each right after the sine was
\* applied to DM1 and then to DM2; a run that returns made
\* 1 + |cycles|*|angles|*|phases| imaging calls; the calibration measurement
\* is recorded at most once, only after the last image and only if no step
\* raised, and exactly once in a run that returns.
C21_SineSweep ==
    prog = "sine" =>
        LET images  == Calls("image")
            applies == Calls("apply")
            records == Calls("record_calibration")
            flats   == Calls("apply_both")
            nImages == Cardinality(images)
        IN
        /\ \A j \in images :
              LET n == CountBefore("image", j) IN
              IF n = 1
                 THEN /\ log[j].kind = "dms_flat"
                      /\ \E f \in flats : f < j /\ log[f].kind = "flat"
                      /\ \A a \in applies : a > j
                 ELSE /\ log[j].kind = "sine"
                      /\ n - 1 <= SineTriples
                      /\ \E ic \in 1..Len(cycles),
                            ia \in 1..Len(orientation_angles),
                            ip \in 1..Len(phase_shifts) :
                            /\ n - 1 = ((ic - 1) * Len(orientation_angles) + (ia - 1))
                                          * Len(phase_shifts) + ip
                            /\ log[j].arg = <<cycles[ic], orientation_angles[ia],
                                              phase_shifts[ip]>>
                            /\ log[j - 2].op = "apply" /\ log[j - 2].kind = "dm1"
                            /\ log[j - 2].arg = <<orientation_angles[ia], cycles[ic],
                                                  50, 90>>
                            /\ log[j - 1].op = "apply" /\ log[j - 1].kind = "dm2"
                            /\ log[j - 1].arg = <<orientation_angles[ia], cycles[ic],
                                                  50, 90 + phase_shifts[ip]>>
        /\ Cardinality(flats) <= 1
        /\ applies # {} => nImages >= 1
        /\ Cardinality(applies) <= 2 * nImages
        /\ Cardinality(records) <= 1
        /\ \A r \in records :
              /\ err = "none"
              /\ nImages = 1 + SineTriples
              /\ \A j \in images \cup applies : j < r
        /\ pc = "done" =>
              /\ nImages = 1 + SineTriples
              /\ Cardinality(applies) = 2 * SineTriples
              /\ Cardinality(records) = 1
        /\ pc = "raised" => records = {}

\* C21 witness: two cycles, two angles and two phase shifts; the run returned
\* after nine imaging calls, the third of them for the first cycle, the first
\* angle and the second phase shift, and one calibration record.
C21_Witness ==
    /\ prog = "sine" /\ pc = "done"
    /\ cycles = <<6, 8>> /\ orientation_angles = <<0, 90>>
    /\ phase_shifts = <<0, 45>>
    /\ Cardinality(Calls("image")) = 9
    /\ Cardinality(Calls("record_calibration")) = 1
    /\ \E j \in Calls("image") :
          CountBefore("image", j) = 3 /\ log[j].arg = <<6, 0, 45>>
    /\ log[Len(log) - 2].op = "record_calibration"

\* C21 witness of a failure: an imaging call of the sweep raised; nothing was
\* recorded and both controllers were released.
C21_RaisedNoRecord ==
    /\ prog = "sine" /\ pc = "raised" /\ err = "run_hicat_imaging"
    /\ Cardinality(Calls("image")) = 3
    /\ Calls("record_calibration") = {}
    /\ released = <<"iris", "dm">>

====
